---- MODULE Spec2Model ----
(***************************************************************************)
(* Model of draw-templates.py: foam templates for Hammond cases.           *)
(*                                                                         *)
(* Units.  The script computes in Python floats.  The model computes the   *)
(* same expressions exactly, in integers:                                  *)
(*   - a length in mm is held in hundredths of a millimetre (112.4 mm is   *)
(*     11240);                                                             *)
(*   - a length in inches is held in 1/12700 inch (7.5 in is 95250), so    *)
(*     that 1/100 mm = 5 units and the mm <-> inch conversions are exact;  *)
(*   - a pixel coordinate is held in 1/12700 pixel.                        *)
(* IEEE rounding of the float results (at most about 1e-12 pixel on the    *)
(* table's values) is not modelled.                                        *)
(***************************************************************************)
EXTENDS Integers, Sequences, FiniteSets, TLC

VARIABLES
    pc,             \* position in the main sequence (a source line label)
    ret,            \* where end_drawing returns to: a draw label or "exit"
    case,           \* main: case
    page,           \* main: page
    x,              \* main: x
    y,              \* main: y
    top_bounds,     \* main: top_bounds
    end_bounds,     \* main: end_bounds
    side_bounds,    \* main: side_bounds
    bottom_bounds,  \* main: bottom_bounds
    g_position_mm,  \* global pen position
    g_pen_is_down,  \* global pen flag
    g_drawing,      \* global drawing: its size and its elements, in order
    i,              \* draw_ruler: iterations of the box loop done
    rendered,       \* the files written by render, in order
    panels,         \* history: the draw_*_h calls made by main, in order
    checks          \* history: the page-fit tests made by main, in order

vars == <<pc, ret, case, page, x, y, top_bounds, end_bounds, side_bounds,
          bottom_bounds, g_position_mm, g_pen_is_down, g_drawing, i,
          rendered, panels, checks>>

----------------------------------------------------------------------------
(* Global config *)

\* Tuple format: (name, top_len, top_width, bottom_len, bottom_width, height, notch)
g_cases ==
    [c \in {"1590B", "1590B-tayda", "1590BB", "1590BB-tayda", "1590Y",
            "1550P", "1590A-tayda"} |->
        CASE c = "1590B"        -> <<"Hammond 1590B", 11240, 6050, 11070, 5870, 3110, 1000>>
          [] c = "1590B-tayda"  -> <<"Hammond 1590B (Tayda clone)", 11240, 6040, 11040, 5870, 3110, 1000>>
          [] c = "1590BB"       -> <<"Hammond 1590BB", 11990, 9430, 11700, 9150, 3410, 1000>>
          [] c = "1590BB-tayda" -> <<"Hammond 1590BB (Tayda clone)", 12020, 9500, 11890, 9370, 3730, 1000>>
          [] c = "1590Y"        -> <<"Hammond 1590Y", 9220, 9220, 9000, 9000, 4180, 1000>>
          [] c = "1550P"        -> <<"Hammond 1550P", 8020, 5500, 7940, 5440, 2540, 1000>>
          [] c = "1590A-tayda"  -> <<"Hammond 1590A (Tayda clone)", 9240, 3830, 9140, 3730, 3110, 1000>>]

\* Table entries a user could add to g_cases, used to exercise the page-fit
\* test at and around its threshold (after the top panel y = 32 mm + top_width,
\* and the threshold is 234 mm):
\*   fit-exact: 32 + 150 + 52    = 234     (exactly the threshold)
\*   fit-under: 32 + 150 + 51.9  = 233.9   (just under)
\*   fit-over:  32 + 150 + 52.1  = 234.1   (just over)
ProbeCases ==
    [c \in {"fit-exact", "fit-under", "fit-over"} |->
        CASE c = "fit-exact" -> <<"Probe, exact fit", 16000, 15000, 15800, 14800, 5200, 1000>>
          [] c = "fit-under" -> <<"Probe, just under", 16000, 15000, 15800, 14800, 5190, 1000>>
          [] c = "fit-over"  -> <<"Probe, just over", 16000, 15000, 15800, 14800, 5210, 1000>>]

\* g_cases[case] as the functions look it up
CaseTable == g_cases @@ ProbeCases

g_foam_thick == 600

g_dpi == 600

g_fudge == 1

----------------------------------------------------------------------------
(* Unit conversions *)

in_to_mm(inches) == (inches * 254) \div 1270

mm_to_in(mm) == (mm * 1270) \div 254

in_to_px(inches) == inches * g_dpi * g_fudge

mm_to_px(mm) == in_to_px(mm_to_in(mm))

\* 7.5 in and 10 in
PageWidthIn == 95250

PageHeightIn == 127000

g_size_mm == <<in_to_mm(PageWidthIn), in_to_mm(PageHeightIn)>>

Drawing(w, h) == [width |-> w, height |-> h, elements |-> <<>>]

----------------------------------------------------------------------------
(* Coordinate translation *)

flip_y(yy) == g_size_mm[2] - yy

flip_dy(dy) == -(dy)

bottom == g_size_mm[2]

----------------------------------------------------------------------------
(* Drawing functions.  Each takes the global drawing state                 *)
(*   s = [g_position_mm, g_pen_is_down, g_drawing]                         *)
(* and returns it as the function leaves it.                               *)

G == [g_position_mm |-> g_position_mm,
      g_pen_is_down |-> g_pen_is_down,
      g_drawing     |-> g_drawing]

append(s, e) ==
    [s EXCEPT !.g_drawing.elements = Append(@, e)]

draw_line(s, origin_x, origin_y, dx, dy) ==
    append(s, [kind |-> "Line",
               sx |-> mm_to_px(origin_x),
               sy |-> mm_to_px(flip_y(origin_y)),
               ex |-> mm_to_px(origin_x + dx),
               ey |-> mm_to_px(flip_y(origin_y) + flip_dy(dy))])

pen_down(s) == [s EXCEPT !.g_pen_is_down = TRUE]

pen_up(s) == [s EXCEPT !.g_pen_is_down = FALSE]

move(s, dx, dy) ==
    LET drawn == IF s.g_pen_is_down
                 THEN draw_line(s, s.g_position_mm[1], s.g_position_mm[2], dx, dy)
                 ELSE s
    IN  [drawn EXCEPT !.g_position_mm = <<s.g_position_mm[1] + dx,
                                          s.g_position_mm[2] + dy>>]

\* warp that draws on its way when the pen is down
warp_draws(s, wx, wy) ==
    move(s, wx - s.g_position_mm[1], wy - s.g_position_mm[2])

warp(s, wx, wy) == [s EXCEPT !.g_position_mm = <<wx, wy>>]

font_size == 12

text(s, content, align_right) ==
    append(s, [kind |-> "Text",
               content |-> content,
               size |-> (font_size * g_dpi * 12700 * g_fudge) \div 72,
               tx |-> mm_to_px(s.g_position_mm[1]),
               ty |-> mm_to_px(flip_y(s.g_position_mm[2])),
               anchor |-> IF align_right THEN "end" ELSE "start"])

\* one call of a function body
Call(s, c) ==
    CASE c[1] = "pen_down" -> pen_down(s)
      [] c[1] = "pen_up"   -> pen_up(s)
      [] c[1] = "move"     -> move(s, c[2], c[3])
      [] c[1] = "warp"     -> warp(s, c[2], c[3])
      [] c[1] = "text"     -> text(s, c[2], c[3])

\* A function body is written as the sequence of the calls it makes;
\* Exec makes them in order (the state after a call is bound by a set
\* constructor, so that it is computed once).
RECURSIVE Exec(_, _)
Exec(s, prog) ==
    IF prog = <<>> THEN s
    ELSE CHOOSE r \in {Exec(t, Tail(prog)) : t \in {Call(s, Head(prog))}} : TRUE

draw_box(w, h) ==
    << <<"pen_down">>,
       <<"move", w, 0>>,
       <<"move", 0, h>>,
       <<"move", -w, 0>>,
       <<"move", 0, -h>>,
       <<"pen_up">> >>

\* draw_ruler up to its loop
draw_ruler_head ==
    << <<"warp", 500, bottom - 1200>>,
       <<"text", "14cm Ruler", FALSE>>,
       <<"warp", 500 + 14000, bottom - 1200>>,
       <<"text", "github.com/hammond-foam", TRUE>>,
       <<"warp", 500, bottom - 1000>> >>

\* one iteration of draw_ruler's loop
draw_ruler_body == draw_box(1000, 500) \o << <<"move", 1000, 0>> >>

RulerBoxes == 14

----------------------------------------------------------------------------
(* Panels.  c is the tuple g_cases[case]. *)

top_len(c) == c[2]
top_width(c) == c[3]
bottom_len(c) == c[4]
bottom_width(c) == c[5]
height(c) == c[6]
notch(c) == c[7]

\* Top:

get_top_bounds_h(cs) ==
    LET c == CaseTable[cs]
        w == top_len(c) + g_foam_thick * 2
        h == top_width(c) + g_foam_thick * 2
    IN  <<w, h>>

\* draw_top_h whose first corner is inset by the notch alone
draw_top_h_shallow(px, py, cs) ==
    LET c == CaseTable[cs] IN
    << <<"warp", px, py>>,
       <<"move", g_foam_thick + notch(c), 0>>,
       <<"pen_down">>,
       <<"move", top_len(c) - notch(c) - notch(c), 0>>,
       <<"move", 0, notch(c)>>,
       <<"move", g_foam_thick + notch(c), 0>>,
       <<"move", 0, top_width(c) - notch(c) - notch(c)>>,
       <<"move", -(g_foam_thick + notch(c)), 0>>,
       <<"move", 0, g_foam_thick + notch(c)>>,
       <<"move", -(top_len(c) - notch(c) - notch(c)), 0>>,
       <<"move", 0, -(g_foam_thick + notch(c))>>,
       <<"move", -(g_foam_thick + notch(c)), 0>>,
       <<"move", 0, -(top_width(c) - notch(c) - notch(c))>>,
       <<"move", g_foam_thick + notch(c), 0>>,
       <<"move", 0, -notch(c)>>,
       <<"pen_up">> >>

draw_top_h(px, py, cs) ==
    LET c == CaseTable[cs] IN
    << <<"warp", px, py>>,
       <<"move", g_foam_thick + notch(c), 0>>,
       <<"pen_down">>,
       <<"move", top_len(c) - notch(c) - notch(c), 0>>,
       <<"move", 0, g_foam_thick + notch(c)>>,
       <<"move", g_foam_thick + notch(c), 0>>,
       <<"move", 0, top_width(c) - notch(c) - notch(c)>>,
       <<"move", -(g_foam_thick + notch(c)), 0>>,
       <<"move", 0, g_foam_thick + notch(c)>>,
       <<"move", -(top_len(c) - notch(c) - notch(c)), 0>>,
       <<"move", 0, -(g_foam_thick + notch(c))>>,
       <<"move", -(g_foam_thick + notch(c)), 0>>,
       <<"move", 0, -(top_width(c) - notch(c) - notch(c))>>,
       <<"move", g_foam_thick + notch(c), 0>>,
       <<"move", 0, -(g_foam_thick + notch(c))>>,
       <<"pen_up">> >>

\* End caps:

\* get_end_bounds_h with the foam margin added to the height as well
get_end_bounds_h_margin(cs) ==
    LET c == CaseTable[cs]
        w == top_width(c) + g_foam_thick * 2
        h == height(c) + g_foam_thick * 2
    IN  <<w, h>>

get_end_bounds_h(cs) ==
    LET c == CaseTable[cs]
        w == top_width(c) + g_foam_thick * 2
        h == height(c)
    IN  <<w, h>>

\* draw_end_h whose closing edge forgets to halve the taper
draw_end_h_open(px, py, cs) ==
    LET c == CaseTable[cs] IN
    << <<"warp", px, py>>,
       <<"pen_down">>,
       <<"move", top_width(c) + g_foam_thick * 2, 0>>,
       <<"move", -((top_width(c) - bottom_width(c)) \div 2), height(c)>>,
       <<"move", -(bottom_width(c) + g_foam_thick * 2), 0>>,
       <<"move", -(top_width(c) - bottom_width(c)), -height(c)>>,
       <<"pen_up">> >>

draw_end_h(px, py, cs) ==
    LET c == CaseTable[cs] IN
    << <<"warp", px, py>>,
       <<"pen_down">>,
       <<"move", top_width(c) + g_foam_thick * 2, 0>>,
       <<"move", -((top_width(c) - bottom_width(c)) \div 2), height(c)>>,
       <<"move", -(bottom_width(c) + g_foam_thick * 2), 0>>,
       <<"move", -((top_width(c) - bottom_width(c)) \div 2), -height(c)>>,
       <<"pen_up">> >>

\* Sides:

\* get_side_bounds_h taking the bottom length for the top length
get_side_bounds_h_bottom(cs) ==
    LET c == CaseTable[cs]
        w == bottom_len(c) + g_foam_thick * 2
        h == height(c)
    IN  <<w, h>>

get_side_bounds_h(cs) ==
    LET c == CaseTable[cs]
        w == top_len(c) + g_foam_thick * 2
        h == height(c)
    IN  <<w, h>>

draw_side_h(px, py, cs) ==
    LET c == CaseTable[cs] IN
    << <<"warp", px, py>>,
       <<"pen_down">>,
       <<"move", top_len(c) + g_foam_thick * 2, 0>>,
       <<"move", -((top_len(c) - bottom_len(c)) \div 2), height(c)>>,
       <<"move", -(bottom_len(c) + g_foam_thick * 2), 0>>,
       <<"move", -((top_len(c) - bottom_len(c)) \div 2), -height(c)>>,
       <<"pen_up">> >>

\* Bottom:

get_bottom_bounds_h(cs) ==
    LET c == CaseTable[cs]
        w == bottom_len(c) + g_foam_thick * 2
        h == bottom_width(c) + g_foam_thick * 2
    IN  <<w, h>>

draw_bottom_h(px, py, cs, center_cutout) ==
    LET c == CaseTable[cs]
        margin == 600  \* additional inside margin
    IN
    << <<"warp", px, py>>,
       <<"pen_down">>,
       <<"move", bottom_len(c) + g_foam_thick * 2, 0>>,
       <<"move", 0, bottom_width(c) + g_foam_thick * 2>>,
       <<"move", -(bottom_len(c) + g_foam_thick * 2), 0>>,
       <<"move", 0, -(bottom_width(c) + g_foam_thick * 2)>> >>
    \o (IF center_cutout
        THEN << <<"warp", px + g_foam_thick + margin, py + g_foam_thick + margin>>,
                <<"move", bottom_len(c) - margin * 2, 0>>,
                <<"move", 0, bottom_width(c) - margin * 2>>,
                <<"move", -(bottom_len(c) - margin * 2), 0>>,
                <<"move", 0, -(bottom_width(c) - margin * 2)>> >>
        ELSE <<>>)
    \o << <<"pen_up">> >>

----------------------------------------------------------------------------
(* Rendering to pages *)

\* start_drawing that keeps drawing into the old Drawing
start_drawing_keep(s, cs, pg) ==
    LET desc == CaseTable[cs][1]
    IN  Exec(s,
             << <<"warp", 500, 1000>>,
                <<"text", "EVA 6mm foam templates for " \o desc \o ", pg "
                          \o ToString(pg), FALSE>> >>)

start_drawing(s, cs, pg) ==
    LET fresh == [s EXCEPT !.g_drawing = Drawing(mm_to_px(g_size_mm[1]),
                                                 mm_to_px(g_size_mm[2]))]
        desc  == CaseTable[cs][1]
    IN  Exec(fresh,
             << <<"warp", 500, 1000>>,
                <<"text", "EVA 6mm foam templates for " \o desc \o ", pg "
                          \o ToString(pg), FALSE>> >>)

\* render writes <basename>.svg and converts it to <basename>.pdf
render(files, basename, drawing) ==
    Append(files, [basename |-> basename, drawing |-> drawing])

Basename(cs, pg) == cs \o "_p" \o ToString(pg)

\* NeedsNewPage with > for >=: a panel that ends exactly on the reserve stays
NeedsNewPage_strict(yy, h) == yy + h > bottom - 2000

\* NeedsNewPage without the 20 mm reserve
NeedsNewPage_noreserve(yy, h) == yy + h >= bottom

\* the page-fit test of the main sequence
NeedsNewPage(yy, h) == yy + h >= bottom - 2000

----------------------------------------------------------------------------
(* Main.  One action per statement group of the main sequence; the calls   *)
(* of end_drawing (draw_ruler's loop, render) and of start_drawing inside  *)
(* next_drawing are steps of their own.  The case named on the command     *)
(* line is taken to be a key of the table, and rsvg-convert to succeed.    *)

SetG(s) ==
    /\ g_position_mm' = s.g_position_mm
    /\ g_pen_is_down' = s.g_pen_is_down
    /\ g_drawing' = s.g_drawing

NoBounds == <<0, 0>>

InitWith(keys) ==
    /\ pc = "L276"
    /\ ret = "none"
    /\ case \in keys
    /\ page = 0
    /\ x = 0
    /\ y = 0
    /\ top_bounds = NoBounds
    /\ end_bounds = NoBounds
    /\ side_bounds = NoBounds
    /\ bottom_bounds = NoBounds
    /\ g_position_mm = <<0, 0>>
    /\ g_pen_is_down = FALSE
    /\ g_drawing = Drawing(mm_to_px(g_size_mm[1]), mm_to_px(g_size_mm[2]))
    /\ i = 0
    /\ rendered = <<>>
    /\ panels = <<>>
    /\ checks = <<>>

Init == InitWith(DOMAIN g_cases)

InitProbe == InitWith(DOMAIN CaseTable)

\* page = 1; start_drawing(case, page); x = 5; y = 15; the four bounds
L276 ==
    /\ pc = "L276"
    /\ page' = 1
    /\ SetG(start_drawing(G, case, 1))
    /\ x' = 500
    /\ y' = 1500
    /\ top_bounds' = get_top_bounds_h(case)
    /\ end_bounds' = get_end_bounds_h(case)
    /\ side_bounds' = get_side_bounds_h(case)
    /\ bottom_bounds' = get_bottom_bounds_h(case)
    /\ pc' = "L285"
    /\ UNCHANGED <<ret, case, i, rendered, panels, checks>>

\* draw_X_h(x, y, case, ...); y += X_bounds[1] + 5
DrawStep(label, prog, kind, cutout, h, next) ==
    /\ pc = label
    /\ \E t \in {Exec(G, prog)} :
        /\ SetG(t)
        /\ panels' = Append(panels,
                        [kind |-> kind, cutout |-> cutout, page |-> page,
                         x |-> x, y |-> y,
                         first |-> Len(g_drawing.elements) + 1,
                         last |-> Len(t.g_drawing.elements)])
    /\ y' = y + h + 500
    /\ pc' = next
    /\ UNCHANGED <<ret, case, page, x, top_bounds, end_bounds, side_bounds,
                   bottom_bounds, i, rendered, checks>>

\* if y + X_bounds[1] >= bottom() - 20: next_drawing(case, page); ...
CheckStep(label, h, next) ==
    /\ pc = label
    /\ checks' = Append(checks, [y |-> y, h |-> h, page |-> page,
                                 broke |-> NeedsNewPage(y, h)])
    /\ IF NeedsNewPage(y, h)
       THEN pc' = "draw_ruler" /\ ret' = next
       ELSE pc' = next /\ ret' = ret
    /\ UNCHANGED <<case, page, x, y, top_bounds, end_bounds, side_bounds,
                   bottom_bounds, g_position_mm, g_pen_is_down, g_drawing,
                   i, rendered, panels>>

L285 == DrawStep("L285", draw_top_h(x, y, case), "top", FALSE, top_bounds[2], "L288")

L288 == CheckStep("L288", end_bounds[2], "L290")

L290 == DrawStep("L290", draw_end_h(x, y, case), "end", FALSE, end_bounds[2], "L293")

L293 == CheckStep("L293", end_bounds[2], "L295")

\* L295 drawing a side where the second end cap belongs
L295_side == DrawStep("L295", draw_side_h(x, y, case), "end", FALSE, end_bounds[2], "L298")

L295 == DrawStep("L295", draw_end_h(x, y, case), "end", FALSE, end_bounds[2], "L298")

L298 == CheckStep("L298", side_bounds[2], "L300")

L300 == DrawStep("L300", draw_side_h(x, y, case), "side", FALSE, side_bounds[2], "L303")

L303 == CheckStep("L303", side_bounds[2], "L305")

L305 == DrawStep("L305", draw_side_h(x, y, case), "side", FALSE, side_bounds[2], "L308")

L308 == CheckStep("L308", bottom_bounds[2], "L310")

L310 == DrawStep("L310", draw_bottom_h(x, y, case, TRUE), "bottom", TRUE, bottom_bounds[2], "L313")

L313 == CheckStep("L313", bottom_bounds[2], "L315")

L315 == DrawStep("L315", draw_bottom_h(x, y, case, TRUE), "bottom", TRUE, bottom_bounds[2], "L318")

L318 == CheckStep("L318", bottom_bounds[2], "L320")

L320 == DrawStep("L320", draw_bottom_h(x, y, case, FALSE), "bottom", FALSE, bottom_bounds[2], "L323")

\* end_drawing(case, page), the last statement
L323 ==
    /\ pc = "L323"
    /\ pc' = "draw_ruler"
    /\ ret' = "exit"
    /\ UNCHANGED <<case, page, x, y, top_bounds, end_bounds, side_bounds,
                   bottom_bounds, g_position_mm, g_pen_is_down, g_drawing,
                   i, rendered, panels, checks>>

\* end_drawing: draw_ruler() up to its loop
DrawRulerHead ==
    /\ pc = "draw_ruler"
    /\ SetG(Exec(G, draw_ruler_head))
    /\ i' = 0
    /\ pc' = "ruler_loop"
    /\ UNCHANGED <<ret, case, page, x, y, top_bounds, end_bounds, side_bounds,
                   bottom_bounds, rendered, panels, checks>>

\* draw_ruler: one iteration of for _ in range(14)
DrawRulerBox ==
    /\ pc = "ruler_loop"
    /\ i < RulerBoxes
    /\ SetG(Exec(G, draw_ruler_body))
    /\ i' = i + 1
    /\ UNCHANGED <<pc, ret, case, page, x, y, top_bounds, end_bounds,
                   side_bounds, bottom_bounds, rendered, panels, checks>>

\* end_drawing: render("%s_p%s" % (case, page)), and the return
Render ==
    /\ pc = "ruler_loop"
    /\ i = RulerBoxes
    /\ rendered' = render(rendered, Basename(case, page), g_drawing)
    /\ pc' = IF ret = "exit" THEN "done" ELSE "start_next"
    /\ UNCHANGED <<ret, case, page, x, y, top_bounds, end_bounds, side_bounds,
                   bottom_bounds, g_position_mm, g_pen_is_down, g_drawing,
                   i, panels, checks>>

\* next_drawing: start_drawing(case, page+1)
StartNext ==
    /\ pc = "start_next"
    /\ SetG(start_drawing(G, case, page + 1))
    /\ pc' = "page_inc"
    /\ UNCHANGED <<ret, case, page, x, y, top_bounds, end_bounds, side_bounds,
                   bottom_bounds, i, rendered, panels, checks>>

\* PageInc that forgets page += 1
PageInc_same ==
    /\ pc = "page_inc"
    /\ y' = 1500
    /\ pc' = ret
    /\ UNCHANGED <<ret, case, page, x, top_bounds, end_bounds, side_bounds,
                   bottom_bounds, g_position_mm, g_pen_is_down, g_drawing,
                   i, rendered, panels, checks>>

\* back in main after next_drawing: page += 1; y = 15
PageInc ==
    /\ pc = "page_inc"
    /\ page' = page + 1
    /\ y' = 1500
    /\ pc' = ret
    /\ UNCHANGED <<ret, case, x, top_bounds, end_bounds, side_bounds,
                   bottom_bounds, g_position_mm, g_pen_is_down, g_drawing,
                   i, rendered, panels, checks>>

Next ==
    \/ L276 \/ L285 \/ L288 \/ L290 \/ L293 \/ L295 \/ L298 \/ L300
    \/ L303 \/ L305 \/ L308 \/ L310 \/ L313 \/ L315 \/ L318 \/ L320 \/ L323
    \/ DrawRulerHead \/ DrawRulerBox \/ Render \/ StartNext \/ PageInc

\* the shipped table
Spec == Init /\ [][Next]_vars

\* the shipped table and the probe entries
ProbeSpec == InitProbe /\ [][Next]_vars

\* the script runs to its end: no step waits on anything
FairSpec == Init /\ [][Next]_vars /\ WF_vars(Next)

----------------------------------------------------------------------------
(* Reading the drawings back *)

\* pages are ended in order, so page pg is rendered[pg] once ended and the
\* global drawing until then
PageElems(pg) ==
    IF pg <= Len(rendered) THEN rendered[pg].drawing.elements
    ELSE g_drawing.elements

\* the elements the k-th draw_*_h call appended
PanelSegs(p) == SubSeq(PageElems(p.page), p.first, p.last)

Limit == bottom - 2000

Title(pg) == "EVA 6mm foam templates for " \o CaseTable[case][1] \o ", pg "
             \o ToString(pg)

IsRendered(pg) ==
    \E k \in 1..Len(rendered) : rendered[k].basename = Basename(case, pg)

\* the bounds main holds for a panel of this kind
BoundsOf(kind) ==
    CASE kind = "top"    -> top_bounds
      [] kind = "end"    -> end_bounds
      [] kind = "side"   -> side_bounds
      [] kind = "bottom" -> bottom_bounds

AllLines(q) == \A j \in 1..Len(q) : q[j].kind = "Line"

MinOf(S) == CHOOSE m \in S : \A n \in S : m <= n
MaxOf(S) == CHOOSE m \in S : \A n \in S : m >= n

Xs(q) == {q[j].sx : j \in 1..Len(q)} \cup {q[j].ex : j \in 1..Len(q)}
Ys(q) == {q[j].sy : j \in 1..Len(q)} \cup {q[j].ey : j \in 1..Len(q)}

----------------------------------------------------------------------------
(* C1: the page packer *)

\* the k-th page-fit test and the panel drawn after it
Packed(k, starts) ==
    LET c == checks[k]
        p == panels[k + 1]
    IN  IF starts
        THEN /\ IsRendered(c.page)
             /\ p.page = c.page + 1
             /\ p.y = 1500
        ELSE /\ p.page = c.page
             /\ p.y = c.y

----------------------------------------------------------------------------
(* C2: eight panels, in order *)

PanelOrder ==
    << [kind |-> "top",    cutout |-> FALSE, segs |-> 12],
       [kind |-> "end",    cutout |-> FALSE, segs |-> 4],
       [kind |-> "end",    cutout |-> FALSE, segs |-> 4],
       [kind |-> "side",   cutout |-> FALSE, segs |-> 4],
       [kind |-> "side",   cutout |-> FALSE, segs |-> 4],
       [kind |-> "bottom", cutout |-> TRUE,  segs |-> 8],
       [kind |-> "bottom", cutout |-> TRUE,  segs |-> 8],
       [kind |-> "bottom", cutout |-> FALSE, segs |-> 4] >>

\* the width of what was drawn
DrawnWidth(p) == MaxOf(Xs(PanelSegs(p))) - MinOf(Xs(PanelSegs(p)))

\* every line of every page that is not a ruler line (the last 4 * boxes of
\* an ended page are)
PanelLineCount(pg) ==
    LET e == PageElems(pg)
        n == Cardinality({j \in 1..Len(e) : e[j].kind = "Line"})
    IN  IF pg <= Len(rendered) THEN n - 4 * RulerBoxes ELSE n

RECURSIVE SumTo(_, _)
SumTo(f(_), n) == IF n = 0 THEN 0 ELSE f(n) + SumTo(f, n - 1)

\* C2: one run draws exactly eight panels, in the order top, end, end, side,
\* side, bottom with cutout, bottom with cutout, bottom without, wherever the
\* page breaks fall: what has been drawn is always a prefix of that order,
\* each panel with the segments and the width of its kind, and at the end
\* the pages hold these eight panels and no other panel line.
C2_EightPanelsInOrder ==
    /\ Len(panels) <= Len(PanelOrder)
    /\ \A k \in 1..Len(panels) :
        /\ panels[k].kind = PanelOrder[k].kind
        /\ panels[k].cutout = PanelOrder[k].cutout
        /\ Len(PanelSegs(panels[k])) = PanelOrder[k].segs
        /\ AllLines(PanelSegs(panels[k]))
        /\ DrawnWidth(panels[k]) = mm_to_px(BoundsOf(PanelOrder[k].kind)[1])
    /\ pc = "done" =>
        /\ Len(panels) = 8
        /\ SumTo(PanelLineCount, Len(rendered)) = 12 + 4 + 4 + 4 + 4 + 8 + 8 + 4

\* a run has ended with a page break between two panels of the same kind
C2_Witness ==
    /\ pc = "done"
    /\ \E k \in 1..7 : panels[k].kind = panels[k + 1].kind
                       /\ panels[k].page # panels[k + 1].page

----------------------------------------------------------------------------
(* C3: closed polygons *)

Closed(q) ==
    /\ Len(q) > 0
    /\ AllLines(q)
    /\ \A j \in 1..(Len(q) - 1) : q[j].ex = q[j + 1].sx /\ q[j].ey = q[j + 1].sy
    /\ q[Len(q)].ex = q[1].sx
    /\ q[Len(q)].ey = q[1].sy

----------------------------------------------------------------------------
(* C4: the foam margin in the bounds *)

Foam2 == g_foam_thick * 2

\* C4 as stated: the bounds of every panel type exceed the case face's
\* dimensions by twice the foam thickness in both width and height.
C4_MarginBothWays ==
    pc # "L276" =>
        LET c == CaseTable[case] IN
        /\ top_bounds    = <<top_len(c) + Foam2, top_width(c) + Foam2>>
        /\ end_bounds    = <<top_width(c) + Foam2, height(c) + Foam2>>
        /\ side_bounds   = <<top_len(c) + Foam2, height(c) + Foam2>>
        /\ bottom_bounds = <<bottom_len(c) + Foam2, bottom_width(c) + Foam2>>

\* C4 amended: the top and bottom bounds exceed the top and bottom face by
\* twice the foam thickness in both width and height; the end cap and side
\* bounds exceed the face's width (top_width, top_len) by twice the foam
\* thickness and their height is the case height with no margin.
C4_MarginByPanel ==
    pc # "L276" =>
        LET c == CaseTable[case] IN
        /\ top_bounds    = <<top_len(c) + Foam2, top_width(c) + Foam2>>
        /\ end_bounds    = <<top_width(c) + Foam2, height(c)>>
        /\ side_bounds   = <<top_len(c) + Foam2, height(c)>>
        /\ bottom_bounds = <<bottom_len(c) + Foam2, bottom_width(c) + Foam2>>

\* main has computed the four bounds
C4_Witness ==
    /\ pc = "L285"
    /\ end_bounds[2] = height(CaseTable[case])
    /\ top_bounds[2] = top_width(CaseTable[case]) + Foam2

----------------------------------------------------------------------------
(* C5: the drawing state on starting a page *)

\* C5: right after start_drawing (from main or from next_drawing) the
\* drawing holds the new page's title and nothing else, so no element of an
\* earlier page; the pen is at the title origin (5, 10) and is up; the
\* drawing has the size of 7.5 in x 10 in.
C5_ResetPerPage ==
    pc \in {"L285", "page_inc"} =>
        /\ Len(g_drawing.elements) = 1
        /\ g_drawing.elements[1].kind = "Text"
        /\ g_drawing.elements[1].content = Title(Len(rendered) + 1)
        /\ \A k \in 1..Len(rendered) :
             \A j \in 1..Len(rendered[k].drawing.elements) :
                 rendered[k].drawing.elements[j] # g_drawing.elements[1]
        /\ g_position_mm = <<500, 1000>>
        /\ ~g_pen_is_down
        /\ g_drawing.width = in_to_px(PageWidthIn)
        /\ g_drawing.height = in_to_px(PageHeightIn)

\* a second or later page has just been started
C5_Witness ==
    /\ pc = "page_inc"
    /\ Len(rendered) >= 1
    /\ Len(rendered[1].drawing.elements) > 1

----------------------------------------------------------------------------
(* C6: the top panel's outline *)

\* the line from (ax, ay) to (bx, by), in mm, as draw_line emits it
LineMM(ax, ay, bx, by) ==
    [kind |-> "Line",
     sx |-> mm_to_px(ax), sy |-> mm_to_px(flip_y(ay)),
     ex |-> mm_to_px(bx), ey |-> mm_to_px(flip_y(by))]

\* the rectangle [rx, rx+w] x [ry, ry+h] with a square of side sq cut out
\* of each of its four corners
NotchedRect(rx, ry, w, h, sq) ==
    << <<rx + sq, ry>>,         <<rx + w - sq, ry>>,
       <<rx + w - sq, ry + sq>>, <<rx + w, ry + sq>>,
       <<rx + w, ry + h - sq>>,  <<rx + w - sq, ry + h - sq>>,
       <<rx + w - sq, ry + h>>,  <<rx + sq, ry + h>>,
       <<rx + sq, ry + h - sq>>, <<rx, ry + h - sq>>,
       <<rx, ry + sq>>,          <<rx + sq, ry + sq>> >>

\* C6: the top panel is the 12-segment polygon left of its bounding
\* rectangle when a square of side foam thickness + notch is removed at each
\* of the four corners; its long straight edges have lengths
\* top_len - 2*notch and top_width - 2*notch.
C6_TopNotchedCorners ==
    \A k \in 1..Len(panels) :
        panels[k].kind = "top" =>
            LET p == panels[k]
                q == PanelSegs(p)
                c == CaseTable[case]
                b == get_top_bounds_h(case)
                v == NotchedRect(p.x, p.y, b[1], b[2], g_foam_thick + notch(c))
            IN  /\ Len(q) = 12
                /\ \A j \in 1..12 :
                     q[j] = LineMM(v[j][1], v[j][2],
                                   v[(j % 12) + 1][1], v[(j % 12) + 1][2])
                /\ q[1].ex - q[1].sx = mm_to_px(top_len(c) - 2 * notch(c))
                /\ q[7].sx - q[7].ex = mm_to_px(top_len(c) - 2 * notch(c))
                /\ q[4].sy - q[4].ey = mm_to_px(top_width(c) - 2 * notch(c))
                /\ q[10].ey - q[10].sy = mm_to_px(top_width(c) - 2 * notch(c))

\* a top panel has been drawn
C6_Witness ==
    /\ Len(panels) >= 1
    /\ panels[1].kind = "top"
    /\ Len(PanelSegs(panels[1])) = 12

----------------------------------------------------------------------------
(* C7: bounds agree with outlines *)

GetBounds(kind) ==
    CASE kind = "top"    -> get_top_bounds_h(case)
      [] kind = "end"    -> get_end_bounds_h(case)
      [] kind = "side"   -> get_side_bounds_h(case)
      [] kind = "bottom" -> get_bottom_bounds_h(case)

----------------------------------------------------------------------------
(* C8: the page lifecycle *)

\* where the ruler starts among a page's elements (past the end if the
\* ruler has not been drawn)
RulerAt(e) ==
    LET S == {j \in 1..Len(e) : e[j].kind = "Text" /\ e[j].content = "14cm Ruler"}
    IN  IF S = {} THEN Len(e) + 1 ELSE MinOf(S)

Count(e, P(_)) == Cardinality({j \in 1..Len(e) : P(e[j])})

\* the page whose drawing is the global one
OpenPage == IF pc \in {"start_next", "done"} THEN Len(rendered)
            ELSE Len(rendered) + 1

\* an ended page: its basename, its one title first, its panels, then its
\* one ruler (two texts and 14 boxes of 4 lines) last
EndedPageOk(k) ==
    LET e == rendered[k].drawing.elements
        r == RulerAt(e)
        IsTitle(el) == el.kind = "Text" /\ el.content = Title(k)
        IsText(el) == el.kind = "Text"
        IsRulerText(el) == el.kind = "Text" /\ el.content = "14cm Ruler"
    IN  /\ rendered[k].basename = Basename(case, k)
        /\ Len(e) >= 1 /\ IsTitle(e[1])
        /\ Count(e, IsTitle) = 1
        /\ Count(e, IsRulerText) = 1
        /\ Count(e, IsText) = 3
        /\ r = Len(e) - (4 * RulerBoxes + 1)
        /\ e[r + 1].kind = "Text" /\ e[r + 1].content = "github.com/hammond-foam"
        /\ \A j \in (r + 2)..Len(e) : e[j].kind = "Line"
        /\ \E n \in 1..Len(panels) : panels[n].page = k
        /\ \A n \in 1..Len(panels) :
             panels[n].page = k => 1 < panels[n].first /\ panels[n].last < r

C8_Lifecycle ==
    /\ \A k \in 1..Len(rendered) : EndedPageOk(k)
    /\ \A j, k \in 1..Len(rendered) :
         j # k => rendered[j].basename # rendered[k].basename
    /\ pc # "L276" =>
         /\ Len(g_drawing.elements) >= 1
         /\ g_drawing.elements[1].content = Title(OpenPage)
         /\ page = IF pc \in {"start_next", "page_inc", "done"}
                   THEN Len(rendered) ELSE Len(rendered) + 1
    /\ \A n \in 1..Len(panels) : panels[n].page \in 1..OpenPage
    /\ pc = "done" =>
         /\ Len(rendered) = page
         /\ rendered[page].drawing = g_drawing

\* C8: the run terminates, and along it pages are numbered consecutively
\* from 1, a page is started only after the page before it has been ended,
\* each ended page holds exactly one title (first), at least one panel and
\* exactly one ruler (last), it is rendered under the basename
\* <case>_p<page>, distinct from every other, and at the end of the run the
\* last started page has been rendered.
C8_PageLifecycle == <>(pc = "done") /\ []C8_Lifecycle

\* a run of several pages has ended
C8_Witness ==
    /\ pc = "done"
    /\ Len(rendered) >= 2
    /\ page = Len(rendered)

----------------------------------------------------------------------------
(* C9: layout safety *)

\* the vertical coordinates of an element
ElemYs(el) == IF el.kind = "Line" THEN {el.sy, el.ey} ELSE {el.ty}

\* C9: every panel segment lies inside the page horizontally, and
\* vertically from the 15 mm top offset to strictly above the bottom reserve
\* bottom() - 20 (pixel y grows upwards: flip_y); so every panel lies below
\* the title, above every ruler element, and 5 mm above the next panel of
\* the same page.
C9_LayoutSafe ==
    \A k \in 1..Len(panels) :
        LET p == panels[k]
            q == PanelSegs(p)
            e == PageElems(p.page)
        IN  /\ MinOf(Xs(q)) >= 0
            /\ MaxOf(Xs(q)) <= mm_to_px(g_size_mm[1])
            /\ MaxOf(Ys(q)) <= mm_to_px(flip_y(1500))
            /\ MinOf(Ys(q)) > mm_to_px(flip_y(Limit))
            /\ e[1].ty > MaxOf(Ys(q))
            /\ \A j \in RulerAt(e)..Len(e) :
                 \A v \in ElemYs(e[j]) : v < MinOf(Ys(q))
            /\ (k < Len(panels) /\ panels[k + 1].page = p.page) =>
                 MaxOf(Ys(PanelSegs(panels[k + 1])))
                     = MinOf(Ys(q)) - mm_to_px(500)

\* a run has ended in which a panel was placed first on a fresh page and
\* another followed it on that page
C9_Witness ==
    /\ pc = "done"
    /\ \E k \in 2..7 : /\ panels[k].page = panels[k - 1].page + 1
                       /\ panels[k].y = 1500
                       /\ panels[k + 1].page = panels[k].page

----------------------------------------------------------------------------
(* C10: pen discipline *)

\* the ruler lines of a page, in groups of four, are closed boxes: the
\* move(10, 0) between two boxes drew nothing
RulerBoxesClosed(e) ==
    LET r == RulerAt(e)
        lines == SubSeq(e, r + 2, Len(e))
    IN  r <= Len(e) =>
          /\ AllLines(lines)
          /\ Len(lines) % 4 = 0
          /\ \A b \in 0..((Len(lines) \div 4) - 1) :
               Closed(SubSeq(lines, 4 * b + 1, 4 * b + 4))

\* C10: the pen is up whenever a drawing function has returned; each panel
\* holds only the segments of its outline (the offset move of draw_top_h and
\* the warp to the cutout of draw_bottom_h drew nothing: the first top
\* segment starts at the notch, and no segment joins the outer rectangle to
\* the cutout); every line of every page belongs to a panel or to a closed
\* ruler box.
C10_PenDiscipline ==
    /\ ~g_pen_is_down
    /\ \A k \in 1..Len(panels) :
        LET p == panels[k]
            q == PanelSegs(p)
        IN  /\ Len(q) = PanelOrder[k].segs
            /\ AllLines(q)
            /\ p.kind = "top" =>
                 /\ q[1].sx = mm_to_px(p.x + g_foam_thick + notch(CaseTable[case]))
                 /\ q[1].sy = mm_to_px(flip_y(p.y))
            /\ p.cutout =>
                 /\ <<q[4].ex, q[4].ey>> # <<q[5].sx, q[5].sy>>
                 /\ \A j \in 1..Len(q) :
                      ~(/\ <<q[j].sx, q[j].sy>> = <<q[4].ex, q[4].ey>>
                        /\ <<q[j].ex, q[j].ey>> = <<q[5].sx, q[5].sy>>)
    /\ \A pg \in 1..OpenPage :
        LET e == PageElems(pg) IN
        /\ RulerBoxesClosed(e)
        /\ \A j \in 1..Len(e) :
             e[j].kind = "Line" =>
                \/ j > RulerAt(e) + 1
                \/ \E n \in 1..Len(panels) :
                     /\ panels[n].page = pg
                     /\ panels[n].first <= j
                     /\ j <= panels[n].last

\* a bottom panel with the cutout has been drawn and a ruler is under way
C10_Witness ==
    /\ pc = "ruler_loop"
    /\ i >= 2
    /\ \E k \in 1..Len(panels) : panels[k].cutout

====
